---- MODULE Spec2Model ----
(***************************************************************************)
(* Model of dom-manipulation/script.js: the quote widget with local        *)
(* persistence, category filter, JSON import and the periodic sync with a  *)
(* remote post collection.                                                 *)
(*                                                                         *)
(* A quote object is a record [text, category, id, timestamp, ref].        *)
(*   id        : [k, n]  k = "none" (undefined), "num" (a number n) or     *)
(*               "temp" (the string `temp_${n}`)                           *)
(*   timestamp : a number of milliseconds, or one of the values            *)
(*               TsUndefined, TsNaN, TsNull                                *)
(*   ref       : the identity of the JavaScript object: 0 for an object    *)
(*               no handler keeps a reference to, n > 0 for the object     *)
(*               that the n-th handleAddQuote call holds in newQuote       *)
(***************************************************************************)
EXTENDS Integers, Sequences, FiniteSets, TLC

(***************************************************************************)
(* Bounds of the model                                                     *)
(***************************************************************************)
MaxEvents == 2
MaxQuotes == 7
TickMs == 10000

\* Date.now() when the script is loaded
StartNow == 100000

(***************************************************************************)
(* Program constants                                                       *)
(***************************************************************************)
TS_STEP == 10000
KEY_PREFIX_LEN == 10
HTTP_CREATED == 201

TsUndefined == 0 - 1
TsNaN == 0 - 2
TsNull == 0 - 3

NoId == [k |-> "none", n |-> 0]
NumId(n) == [k |-> "num", n |-> n]
TempId(t) == [k |-> "temp", n |-> t]

Min(a, b) == IF a < b THEN a ELSE b

\* JavaScript truthiness of an id: undefined and 0 are falsy
Truthy(id) == id.k = "temp" \/ (id.k = "num" /\ id.n # 0)

\* a conversion that takes a missing timestamp for a number below every timestamp
IsNaNOnly(t) == t = TsNaN

\* ToNumber(t) is NaN for undefined and NaN
IsNaN(t) == t \in {TsUndefined, TsNaN}

\* ToNumber(null) is 0
ToNumber(t) == IF t = TsNull THEN 0 ELSE t

\* a >= b instead of a > b
JsGreaterOrEqual(a, b) == ~IsNaN(a) /\ ~IsNaN(b) /\ ToNumber(a) >= ToNumber(b)

\* a > b : false as soon as one side converts to NaN
JsGreater(a, b) == ~IsNaN(a) /\ ~IsNaN(b) /\ ToNumber(a) > ToNumber(b)

\* s.substring(0, 10)
Substring10(s) == SubSeq(s, 1, Min(Len(s), KEY_PREFIX_LEN))

(***************************************************************************)
(* Merge keys.  A key is [k, n, s]: an id, or a string built from the text *)
(***************************************************************************)
IdKey(id) == [k |-> id.k, n |-> id.n, s |-> ""]
StrKey(str) == [k |-> "str", n |-> 0, s |-> str]

\* q.id || `local_${q.text.substring(0, 10)}`
LocalKey(q) == IF Truthy(q.id) THEN IdKey(q.id) ELSE StrKey("local_" \o Substring10(q.text))

\* serverQuote.id || `server_${serverQuote.text.substring(0, 10)}`
ServerKey(q) == IF Truthy(q.id) THEN IdKey(q.id) ELSE StrKey("server_" \o Substring10(q.text))

(***************************************************************************)
(* A Map in insertion order: a sequence of [key, val]                      *)
(***************************************************************************)
MapIndex(m, key) == IF \E i \in 1..Len(m) : m[i].key = key
                    THEN CHOOSE i \in 1..Len(m) : m[i].key = key
                    ELSE 0

\* Map.prototype.set: an existing key keeps its position
MapSet(m, key, val) == IF MapIndex(m, key) # 0
                       THEN [m EXCEPT ![MapIndex(m, key)].val = val]
                       ELSE Append(m, [key |-> key, val |-> val])

\* Array.from(map.values())
MapValues(m) == [i \in 1..Len(m) |-> m[i].val]

\* quotes.forEach(q => localQuotesMap.set(key, q))
RECURSIVE PopulateMap(_, _)
PopulateMap(qs, m) == IF qs = <<>> THEN m
                      ELSE PopulateMap(Tail(qs), MapSet(m, LocalKey(Head(qs)), Head(qs)))

\* the body of serverQuotes.forEach without mergeCount++
MergeStepNoCount(acc, sq) ==
    LET key == ServerKey(sq)
        i == MapIndex(acc.map, key)
    IN IF i # 0
       THEN IF JsGreater(sq.timestamp, acc.map[i].val.timestamp)
            THEN [acc EXCEPT !.map = MapSet(acc.map, key, sq), !.conflictCount = @ + 1]
            ELSE acc
       ELSE [acc EXCEPT !.map = MapSet(acc.map, key, sq)]

\* the body of serverQuotes.forEach, on the accumulator [map, mergeCount, conflictCount]
MergeStep(acc, sq) ==
    LET key == ServerKey(sq)
        i == MapIndex(acc.map, key)
    IN IF i # 0
       THEN IF JsGreater(sq.timestamp, acc.map[i].val.timestamp)
            THEN [acc EXCEPT !.map = MapSet(acc.map, key, sq), !.conflictCount = @ + 1]
            ELSE acc
       ELSE [acc EXCEPT !.map = MapSet(acc.map, key, sq), !.mergeCount = @ + 1]

RECURSIVE MergeLoop(_, _)
MergeLoop(sqs, acc) == IF sqs = <<>> THEN acc
                       ELSE MergeLoop(Tail(sqs), MergeStep(acc, Head(sqs)))

\* the merge of syncQuotes: [map, mergeCount, conflictCount]
Merge(local, serverQuotes) ==
    MergeLoop(serverQuotes,
              [map |-> PopulateMap(local, <<>>), mergeCount |-> 0, conflictCount |-> 0])

(***************************************************************************)
(* JSON.stringify / JSON.parse of the collection                           *)
(***************************************************************************)
\* a serialisation that writes an absent timestamp as null
StringifyTsNull(t) == IF t \in {TsNaN, TsUndefined} THEN TsNull ELSE t

\* JSON.stringify writes NaN as null and has no object identity
StringifyTs(t) == IF t = TsNaN THEN TsNull ELSE t

StringifyQuote(q) == [text |-> q.text, category |-> q.category, id |-> q.id,
                      timestamp |-> StringifyTs(q.timestamp)]

Stringify(qs) == [i \in 1..Len(qs) |-> StringifyQuote(qs[i])]

\* JSON.parse builds fresh objects
ParseQuote(j) == [text |-> j.text, category |-> j.category, id |-> j.id,
                  timestamp |-> j.timestamp, ref |-> 0]

Parse(js) == [i \in 1..Len(js) |-> ParseQuote(js[i])]

(***************************************************************************)
(* Strings of the model                                                    *)
(***************************************************************************)
\* String.prototype.trim on the inputs of the model (blanks only)
RECURSIVE TrimLeft(_)
TrimLeft(s) == IF Len(s) > 0 /\ SubSeq(s, 1, 1) = " " THEN TrimLeft(SubSeq(s, 2, Len(s))) ELSE s

RECURSIVE TrimRight(_)
TrimRight(s) == IF Len(s) > 0 /\ SubSeq(s, Len(s), Len(s)) = " "
                THEN TrimRight(SubSeq(s, 1, Len(s) - 1)) ELSE s

\* a trim that removes nothing
TrimNothing(s) == s

Trim(s) == TrimRight(TrimLeft(s))

\* toUpperCase on the first letters the model's titles start with
ToUpperCase(c) == CASE c = "q" -> "Q" [] c = "s" -> "S" [] c = "m" -> "M"
                    [] c = "d" -> "D" [] c = "n" -> "N" [] OTHER -> c

\* post.title.charAt(0).toUpperCase() + post.title.slice(1)
Capitalize(title) == IF Len(title) = 0 THEN title
                     ELSE ToUpperCase(SubSeq(title, 1, 1)) \o SubSeq(title, 2, Len(title))

\* the category strings of the model in the order Array.prototype.sort gives them
\* (UTF-16 code units)
CategoryOrder == <<"", "5\" nails", "Design", "Life", "Motivation", "Server Update", "Wisdom",
                   "Work", "all">>

(***************************************************************************)
(* Data of the program and of its environment                              *)
(***************************************************************************)
Quote(text, category, id, ts) ==
    [text |-> text, category |-> category, id |-> id, timestamp |-> ts, ref |-> 0]

\* evaluated once, when the script is loaded
defaultQuotes(t) == <<
    Quote("The only way to do great work is to love what you do.", "Work", NumId(1), t - 100000),
    Quote("Persistence can change failure into extraordinary achievement.", "Motivation", NumId(2), t - 90000),
    Quote("Simplicity is the ultimate sophistication.", "Design", NumId(3), t - 80000),
    Quote("The mind is everything. What you think you become.", "Wisdom", NumId(4), t - 70000) >>

Post(id, title) == [id |-> id, title |-> title]

\* bodies the GET may answer with
GetResponses == {
    <<>>,
    << Post(NumId(1), "sunt aut facere repellat provident") >>,
    << Post(NumId(7), "magnam facilis autem"), Post(NumId(7), "dolorem dolore est ipsam") >>,
    << Post(NoId, "nesciunt quas odio") >> }

\* answers to the POST: [status, id]
PostResponse(status, id) == [status |-> status, id |-> id]

PostResponses == { PostResponse(201, NumId(101)), PostResponse(500, NoId) }

\* what the user types in the form
FormTexts == {"Stay hungry ", " "}
FormCategories == {"Life", ""}

\* JSON values of an imported file
JString(v) == [t |-> "string", v |-> v]
JMissing == [t |-> "undefined", v |-> ""]

Item(text, category, id, ts) ==
    [text |-> text, category |-> category, id |-> id, timestamp |-> ts]

\* files the user may import: [parses, isArray, items]
File(parses, isArray, items) == [parses |-> parses, isArray |-> isArray, items |-> items]

ImportFiles == {
    File(FALSE, FALSE, <<>>),
    File(TRUE, FALSE, <<>>),
    File(TRUE, TRUE, << Item(JString("a"), JMissing, NoId, TsUndefined) >>),
    File(TRUE, TRUE, << Item(JString("Know thyself"), JString("Wisdom"), NumId(1), 90000),
                        Item(JString("Know thyself well"), JString("Work"), NumId(1), 100000) >>),
    File(TRUE, TRUE, << Item(JString("Know thyself"), JString("Wisdom"), NoId, TsUndefined),
                        Item(JString("Know thyself well"), JString(""), NoId, TsUndefined) >>) }

\* what localStorage holds when the page is opened: [quotes, filter], where <<>> and ""
\* stand for no item
Store(stored, filter) == [quotes |-> stored, filter |-> filter]

Stores == { Store(<<>>, ""),
            Store(<<>>, "Life"),
            Store(<< Item("Know thyself", "Wisdom", NumId(1), TsUndefined) >>, "Wisdom"),
            Store(<< Item("Measure twice", "5\" nails", NoId, TsUndefined) >>, "5\" nails") }

\* the options the user picks in the categoryFilter control
UserPicks == {"all", "Work"}

\* the values Math.random() takes: 0, and a value so close to 1 that the product with
\* the length rounds down to the last index
Randoms == {"low", "high"}

(***************************************************************************)
(* State                                                                   *)
(***************************************************************************)
VARIABLES
    quotes,         \* the in-memory collection
    persisted,      \* localStorage 'quotes'
    savedFilter,    \* localStorage 'lastCategoryFilter'
    isSyncing,      \* the re-entrancy flag
    getPending,     \* GET requests of fetchServerQuotes in flight
    post,           \* post[r]: the POST of the r-th newQuote: [st, text, category, t, http]
                    \* with the fields of newQuote when it was built and the status
                    \* of the response
    postsIssued,    \* postsIssued[r]: how many POSTs were sent for newQuote r
    nextRef,        \* number of handleAddQuote calls that built a newQuote, plus 1
    now,            \* Date.now()
    status,         \* the syncStatus element: [msg, n, cls]
    conflict,       \* the conflictNotification element: [count, cls, button]
    options,        \* the option values of categoryFilter
    selected,       \* categoryFilter.value
    display,        \* what quoteDisplay shows
    filterTimers,   \* pending setTimeout(filterQuotes, 1000)
    alert,          \* the text of the alert() the handler that has just run raised
    events,         \* events of the environment so far: timer calls of syncQuotes that
                    \* went past the guard, actions of the user, advances of the clock
    lastSync,       \* the locals of the syncQuotes call that has just run: [op, local,
                    \* remote, result, mergeCount, conflictCount]; op = "none" as soon
                    \* as another handler runs
    lastLoad,       \* the loadQuotes call: [fresh, filter, threw]; filter is what
                    \* localStorage 'lastCategoryFilter' held when the call read it,
                    \* as long as nothing else has run (fresh); threw: the call ended
                    \* in an exception, so the script stopped before its last lines
    lastPosts       \* the posts the last merge of syncQuotes received, as long as no
                    \* form submission, answer of a POST, import, failed or empty
                    \* pass has come since; << >> otherwise

vars == << quotes, persisted, savedFilter, isSyncing, getPending, post, postsIssued,
           nextRef, now, status, conflict, options, selected, display, filterTimers,
           alert, events, lastSync, lastLoad, lastPosts >>

\* every newQuote is built by one event
Refs == 1..MaxEvents

\* saveQuotes(): the value of localStorage 'quotes' afterwards
SaveQuotes(qs) == Stringify(qs)

(***************************************************************************)
(* Status surfaces                                                         *)
(***************************************************************************)
Msg(msg, n) == [msg |-> msg, n |-> n]

IdleMsg == Msg("Synced successfully.", 0)

\* what setSyncStatus(message, type) leaves in the element
StatusOf(message, type) == [msg |-> message.msg, n |-> message.n, cls |-> type]

\* a setConflictNotification that never adds the review button
ConflictOfNoButton(count, type) ==
    IF type = "warning" /\ count # 0
    THEN [count |-> count, cls |-> "conflict-notification conflict-warning", button |-> FALSE]
    ELSE [count |-> count, cls |-> "conflict-notification", button |-> FALSE]

\* setConflictNotification(message, type): count = 0 stands for the empty message
ConflictOf(count, type) ==
    IF type = "warning" /\ count # 0
    THEN [count |-> count, cls |-> "conflict-notification conflict-warning", button |-> TRUE]
    ELSE [count |-> count, cls |-> "conflict-notification", button |-> FALSE]

(***************************************************************************)
(* Categories, filter and display                                          *)
(***************************************************************************)
Categories(qs) == {qs[i].category : i \in 1..Len(qs)}

\* populateCategories: 'all', then the distinct truthy categories, sorted
OptionsOf(qs) == <<"all">> \o SelectSeq(CategoryOrder, LAMBDA c : c # "" /\ c \in Categories(qs))

\* the control shows its first option once populateCategories has rebuilt it
SelectedAfterPopulate(opts) == opts[1]

HasOption(opts, v) == \E i \in 1..Len(opts) : opts[i] = v

HasChar(s, c) == \E i \in 1..Len(s) : SubSeq(s, i, i) = c

\* categoryFilter.querySelector(`option[value="${v}"]`): a double quote in v ends the
\* string of the selector early and what follows is no selector, which is a SyntaxError
\* (the values of the model have no backslash)
QuerySelectorOption(opts, v) ==
    IF HasChar(v, "\"") THEN "throws"
    ELSE IF HasOption(opts, v) THEN "found" ELSE "null"

\* categoryFilter.value = v : a value that is no option leaves nothing selected
SelectValue(opts, v) == IF HasOption(opts, v) THEN v ELSE ""

\* a filter that passes every record
FilteredAll(qs, sel) == qs

\* the list filterQuotes hands to displayFilteredQuote
Filtered(qs, sel) == IF sel = "all" THEN qs ELSE SelectSeq(qs, LAMBDA q : q.category = sel)

Shown(kind, text, category) == [kind |-> kind, text |-> text, category |-> category]

\* Math.floor(Math.random() * list.length), from 0
RandomIndex(r, len) == IF r = "low" THEN 0 ELSE len - 1

\* the contents displayFilteredQuote may leave in quoteDisplay
Displays(list, sel) ==
    IF Len(list) = 0 THEN { Shown("none", "", sel) }
    ELSE { Shown("quote", list[RandomIndex(r, Len(list)) + 1].text,
                 list[RandomIndex(r, Len(list)) + 1].category) : r \in Randoms }

(***************************************************************************)
(* loadQuotes, up to the await of the first syncQuotes call                *)
(***************************************************************************)
NoSync == [op |-> "none", local |-> <<>>, remote |-> <<>>, result |-> <<>>,
           mergeCount |-> 0, conflictCount |-> 0]

SyncOp(op) == [NoSync EXCEPT !.op = op]

NoPost == [st |-> "none", text |-> "", category |-> "", t |-> 0, http |-> 0]

\* what the script leaves when loadQuotes throws: the elements as the page has them
BlankStatus == [msg |-> "", n |-> 0, cls |-> ""]

LoadOf(filter, threw) == [fresh |-> TRUE, filter |-> filter, threw |-> threw]

\* any later handler
LoadSeen == [fresh |-> FALSE, filter |-> "", threw |-> lastLoad.threw]

Init ==
    /\ now = StartNow
    /\ \E store \in Stores :
          /\ quotes = IF store.quotes # <<>> THEN Parse(store.quotes) ELSE defaultQuotes(now)
          /\ persisted = IF store.quotes # <<>> THEN store.quotes
                         ELSE SaveQuotes(defaultQuotes(now))
          /\ options = OptionsOf(quotes)
          /\ LET found == IF store.filter # ""
                          THEN QuerySelectorOption(options, store.filter)
                          ELSE "null"
             IN /\ selected = IF found = "found" THEN store.filter
                              ELSE SelectedAfterPopulate(options)
                /\ lastLoad = LoadOf(store.filter, found = "throws")
                /\ IF found = "throws"
                   THEN /\ savedFilter = store.filter
                        /\ display = Shown("blank", "", "")
                        /\ isSyncing = FALSE
                        /\ getPending = 0
                        /\ status = BlankStatus
                        /\ lastSync = NoSync
                   ELSE /\ savedFilter = selected
                        /\ \E d \in Displays(Filtered(quotes, selected), selected) :
                              display = [d EXCEPT !.kind = "last-" \o d.kind]
                        /\ isSyncing = TRUE
                        /\ getPending = 1
                        /\ status = StatusOf(Msg("Syncing...", 0), "loading")
                        /\ lastSync = SyncOp("started")
    /\ conflict = [count |-> 0, cls |-> "", button |-> FALSE]
    /\ lastPosts = <<>>
    /\ post = [r \in Refs |-> NoPost]
    /\ postsIssued = [r \in Refs |-> 0]
    /\ nextRef = 1
    /\ filterTimers = 0
    /\ alert = ""
    /\ events = 0

(***************************************************************************)
(* filterQuotes: the 'newQuote' button, and the timer of handleAddQuote    *)
(***************************************************************************)
\* the effect of filterQuotes() on savedFilter and display
FilterQuotes(qs, sel) ==
    /\ savedFilter' = sel
    /\ \E d \in Displays(Filtered(qs, sel), sel) : display' = d

NewQuoteClick ==
    /\ ~lastLoad.threw
    /\ lastLoad' = LoadSeen
    /\ UNCHANGED lastPosts
    /\ events < MaxEvents
    /\ events' = events + 1
    /\ FilterQuotes(quotes, selected)
    /\ lastSync' = NoSync
    /\ alert' = ""
    /\ UNCHANGED << quotes, persisted, isSyncing, getPending, post, postsIssued, nextRef,
                    now, status, conflict, options, selected, filterTimers >>

FilterTimer ==
    /\ ~lastLoad.threw
    /\ lastLoad' = LoadSeen
    /\ UNCHANGED lastPosts
    /\ filterTimers > 0
    /\ filterTimers' = filterTimers - 1
    /\ FilterQuotes(quotes, selected)
    /\ lastSync' = NoSync
    /\ alert' = ""
    /\ UNCHANGED << quotes, persisted, isSyncing, getPending, post, postsIssued, nextRef,
                    now, status, conflict, options, selected, events >>

\* the user picks an option of the categoryFilter control
SelectCategory ==
    /\ lastLoad' = LoadSeen
    /\ UNCHANGED lastPosts
    /\ events < MaxEvents
    /\ events' = events + 1
    /\ \E v \in UserPicks :
          /\ HasOption(options, v)
          /\ v # selected
          /\ selected' = v
    /\ lastSync' = NoSync
    /\ alert' = ""
    /\ UNCHANGED << quotes, persisted, savedFilter, isSyncing, getPending, post,
                    postsIssued, nextRef, now, status, conflict, options,
                    display, filterTimers >>

(***************************************************************************)
(* The clock and the reset timer of setSyncStatus                          *)
(***************************************************************************)
Tick ==
    /\ ~lastLoad.threw
    /\ lastLoad' = LoadSeen
    /\ UNCHANGED lastPosts
    /\ events < MaxEvents
    /\ events' = events + 1
    /\ now' = now + TickMs
    /\ lastSync' = NoSync
    /\ alert' = ""
    /\ UNCHANGED << quotes, persisted, savedFilter, isSyncing, getPending, post,
                    postsIssued, nextRef, status, conflict, options,
                    selected, display, filterTimers >>

\* the timeout of setSyncStatus(message, 'success'): it acts when the element still
\* shows its message, that is when the element still shows a success status
StatusTimer ==
    /\ ~lastLoad.threw
    /\ lastLoad' = LoadSeen
    /\ UNCHANGED lastPosts
    /\ status.cls = "success"
    /\ status' = StatusOf(IdleMsg, "idle")
    /\ lastSync' = NoSync
    /\ alert' = ""
    /\ UNCHANGED << quotes, persisted, savedFilter, isSyncing, getPending, post,
                    postsIssued, nextRef, now, conflict, options, selected, display,
                    filterTimers, events >>

(***************************************************************************)
(* syncQuotes                                                              *)
(***************************************************************************)
\* syncQuotes without its guard
SyncGuardOff(flag) == FALSE

\* the guard of syncQuotes: if (isSyncing) return
SyncGuard(flag) == flag

\* a call of syncQuotes (setInterval): dropped while a pass is pending,
\* otherwise it runs to the await of the GET
SyncQuotes ==
    /\ ~lastLoad.threw
    /\ lastLoad' = LoadSeen
    /\ UNCHANGED lastPosts
    /\ IF SyncGuard(isSyncing)
       THEN /\ lastSync' = SyncOp("dropped")
            /\ UNCHANGED << isSyncing, status, getPending, events >>
       ELSE /\ events < MaxEvents
            /\ events' = events + 1
            /\ isSyncing' = TRUE
            /\ status' = StatusOf(Msg("Syncing...", 0), "loading")
            /\ getPending' = getPending + 1
            /\ lastSync' = SyncOp("started")
    /\ UNCHANGED << quotes, persisted, savedFilter, post, postsIssued, nextRef,
                    now, conflict, options, selected, display, filterTimers >>
    /\ alert' = ""

\* Date.now() - (10000 * post.id)
ServerTs(t, id) == IF id.k = "num" THEN t - TS_STEP * id.n ELSE TsNaN

\* serverPosts.map(...): the clock may advance between two items, before the item at
\* index tickAt > 1
ServerQuotes(posts, t, tickAt) ==
    [i \in 1..Len(posts) |->
        Quote(Capitalize(posts[i].title), "Server Update", posts[i].id,
              ServerTs(IF tickAt # 0 /\ i >= tickAt THEN t + TickMs ELSE t, posts[i].id))]

\* a catch of fetchServerQuotes that reports nothing
FetchErrorStatusIdle == StatusOf(IdleMsg, "idle")

\* the status the catch of fetchServerQuotes sets
FetchErrorStatus == StatusOf(Msg("Sync Failed (Network Error)", 0), "error")

\* an empty branch that does not look at the class of the element
EmptyStatusAlways(st) == StatusOf(IdleMsg, "idle")

\* the status the empty branch of syncQuotes leaves
EmptyStatus(st) == IF st.cls # "error" THEN StatusOf(IdleMsg, "idle") ELSE st

\* a failure path that returns without clearing the flag
FetchRejectKeepsFlag ==
    /\ ~lastLoad.threw
    /\ lastLoad' = LoadSeen
    /\ lastPosts' = <<>>
    /\ getPending > 0
    /\ getPending' = getPending - 1
    /\ status' = EmptyStatus(FetchErrorStatus)
    /\ alert' = ""
    /\ lastSync' = SyncOp("failed")
    /\ UNCHANGED << quotes, persisted, savedFilter, post, postsIssued, nextRef, isSyncing,
                    now, conflict, options, selected, display, filterTimers, events >>

\* the GET fails: the catch of fetchServerQuotes, then the empty branch of syncQuotes
FetchReject ==
    /\ ~lastLoad.threw
    /\ lastLoad' = LoadSeen
    /\ lastPosts' = <<>>
    /\ getPending > 0
    /\ getPending' = getPending - 1
    /\ status' = EmptyStatus(FetchErrorStatus)
    /\ isSyncing' = FALSE
    /\ alert' = ""
    /\ lastSync' = SyncOp("failed")
    /\ UNCHANGED << quotes, persisted, savedFilter, post, postsIssued, nextRef,
                    now, conflict, options, selected, display, filterTimers, events >>

\* the GET is answered with no post
FetchEmpty ==
    /\ ~lastLoad.threw
    /\ lastLoad' = LoadSeen
    /\ lastPosts' = <<>>
    /\ getPending > 0
    /\ getPending' = getPending - 1
    /\ isSyncing' = FALSE
    /\ alert' = ""
    /\ status' = EmptyStatus(status)
    /\ lastSync' = SyncOp("empty")
    /\ UNCHANGED << quotes, persisted, savedFilter, post, postsIssued, nextRef,
                    now, conflict, options, selected, display, filterTimers, events >>

\* the GET is answered with posts: map to quotes, merge, persist, report, render
FetchMerge ==
    /\ ~lastLoad.threw
    /\ lastLoad' = LoadSeen
    /\ getPending > 0
    /\ \E posts \in GetResponses \ {<<>>} :
       \E tickAt \in {0} \cup 2..Len(posts) :
          /\ Len(quotes) + Len(posts) <= MaxQuotes
          /\ lastPosts' = posts
          /\ tickAt # 0 => events < MaxEvents
          /\ events' = IF tickAt # 0 THEN events + 1 ELSE events
          /\ LET serverQuotes == ServerQuotes(posts, now, tickAt)
                 m == Merge(quotes, serverQuotes)
             IN /\ now' = IF tickAt # 0 THEN now + TickMs ELSE now
                /\ quotes' = MapValues(m.map)
                /\ persisted' = SaveQuotes(quotes')
                /\ conflict' = IF m.conflictCount > 0
                               THEN ConflictOf(m.conflictCount, "warning")
                               ELSE ConflictOf(0, "")
                /\ status' = StatusOf(Msg("Sync Complete. Added", m.mergeCount), "success")
                /\ options' = OptionsOf(quotes')
                /\ selected' = SelectedAfterPopulate(options')
                /\ FilterQuotes(quotes', selected')
                /\ lastSync' = [op |-> "merged", local |-> quotes, remote |-> serverQuotes,
                                result |-> quotes', mergeCount |-> m.mergeCount,
                                conflictCount |-> m.conflictCount]
    /\ getPending' = getPending - 1
    /\ isSyncing' = FALSE
    /\ alert' = ""
    /\ UNCHANGED << post, postsIssued, nextRef, filterTimers >>

(***************************************************************************)
(* handleAddQuote and postNewQuoteToServer                                 *)
(***************************************************************************)
\* the body of handleAddQuote for what the form holds, up to the await of the POST
Submit(textIn, categoryIn) ==
    LET quoteText == Trim(textIn)
        quoteCategory == Trim(categoryIn)
        newQuote == [text |-> quoteText, category |-> quoteCategory,
                     id |-> TempId(now), timestamp |-> now, ref |-> nextRef]
    IN IF quoteText # "" /\ quoteCategory # ""
       THEN /\ quotes' = Append(quotes, newQuote)
            /\ persisted' = SaveQuotes(quotes')
            /\ status' = StatusOf(Msg("Sending new quote...", 0), "loading")
            /\ post' = [post EXCEPT ![nextRef] =
                           [st |-> "pending", text |-> quoteText,
                            category |-> quoteCategory, t |-> now, http |-> 0]]
            /\ postsIssued' = [postsIssued EXCEPT ![nextRef] = @ + 1]
            /\ nextRef' = nextRef + 1
            /\ alert' = ""
       ELSE /\ alert' = "Please ensure both the quote text and a category are entered."
            /\ UNCHANGED << quotes, persisted, status, post, postsIssued, nextRef >>

\* handleAddQuote without the saveQuotes() call that precedes the POST
HandleAddQuoteNoSave ==
    /\ ~lastLoad.threw
    /\ lastLoad' = LoadSeen
    /\ lastPosts' = <<>>
    /\ Len(quotes) < MaxQuotes
    /\ events < MaxEvents
    /\ events' = events + 1
    /\ \E textIn \in FormTexts, categoryIn \in FormCategories :
          LET quoteText == Trim(textIn)
              quoteCategory == Trim(categoryIn)
              newQuote == [text |-> quoteText, category |-> quoteCategory,
                           id |-> TempId(now), timestamp |-> now, ref |-> nextRef]
          IN IF quoteText # "" /\ quoteCategory # ""
             THEN /\ quotes' = Append(quotes, newQuote)
                  /\ persisted' = persisted
                  /\ status' = StatusOf(Msg("Sending new quote...", 0), "loading")
                  /\ post' = [post EXCEPT ![nextRef] =
                                 [st |-> "pending", text |-> quoteText,
                                  category |-> quoteCategory, t |-> now, http |-> 0]]
                  /\ postsIssued' = [postsIssued EXCEPT ![nextRef] = @ + 1]
                  /\ nextRef' = nextRef + 1
                  /\ alert' = ""
             ELSE /\ alert' = "Please ensure both the quote text and a category are entered."
                  /\ UNCHANGED << quotes, persisted, status, post, postsIssued, nextRef >>
    /\ lastSync' = NoSync
    /\ UNCHANGED << savedFilter, isSyncing, getPending, now, conflict, options, selected,
                    display, filterTimers >>

\* the form is submitted: up to the await of the POST, or rejected
HandleAddQuote ==
    /\ ~lastLoad.threw
    /\ lastLoad' = LoadSeen
    /\ lastPosts' = <<>>
    /\ Len(quotes) < MaxQuotes
    /\ events < MaxEvents
    /\ events' = events + 1
    /\ \E textIn \in FormTexts, categoryIn \in FormCategories : Submit(textIn, categoryIn)
    /\ lastSync' = NoSync
    /\ UNCHANGED << savedFilter, isSyncing, getPending, now, conflict, options, selected,
                    display, filterTimers >>

\* an update that reaches no record of the array, as if a merge had copied the records
UpdateNewQuoteDetached(qs, r, id, ts) == qs

\* newQuote.id = ...; newQuote.timestamp = ... : the object written is the one the
\* handler holds, whether or not the array still contains it
UpdateNewQuote(qs, r, id, ts) ==
    [i \in 1..Len(qs) |-> IF qs[i].ref = r
                          THEN [qs[i] EXCEPT !.id = id, !.timestamp = ts]
                          ELSE qs[i]]

\* a response taken for a success whatever its status
PostSucceededAlways(resp) == TRUE

\* response.ok || response.status === 201
PostSucceeded(resp) == (resp.status >= 200 /\ resp.status <= 299) \/ resp.status = HTTP_CREATED

FailedAlert == "Quote added locally, but failed to sync to the server. It will attempt to sync later."

\* an acknowledgement that updates newQuote without the saveQuotes() call
PostResolveNoSave ==
    /\ ~lastLoad.threw
    /\ lastLoad' = LoadSeen
    /\ lastPosts' = <<>>
    /\ \E r \in Refs, resp \in PostResponses :
          /\ post[r].st = "pending"
          /\ IF PostSucceeded(resp)
             THEN /\ quotes' = UpdateNewQuote(quotes, r, resp.id, now)
                  /\ persisted' = persisted
                  /\ status' = StatusOf(Msg("Quote posted successfully!", 0), "success")
                  /\ options' = OptionsOf(quotes')
                  /\ selected' = SelectValue(options', post[r].category)
                  /\ display' = Shown("added", "", post[r].category)
                  /\ filterTimers' = filterTimers + 1
                  /\ post' = [post EXCEPT ![r].st = "acked", ![r].http = resp.status]
                  /\ alert' = ""
             ELSE /\ status' = StatusOf(Msg("Post Failed: Status", resp.status), "error")
                  /\ alert' = FailedAlert
                  /\ post' = [post EXCEPT ![r].st = "failed", ![r].http = resp.status]
                  /\ UNCHANGED << quotes, persisted, options, selected, display, filterTimers >>
    /\ lastSync' = NoSync
    /\ UNCHANGED << savedFilter, isSyncing, getPending, postsIssued, nextRef, now, conflict,
                    events >>

\* the POST is answered with a JSON body
PostResolve ==
    /\ ~lastLoad.threw
    /\ lastLoad' = LoadSeen
    /\ lastPosts' = <<>>
    /\ \E r \in Refs, resp \in PostResponses :
          /\ post[r].st = "pending"
          /\ IF PostSucceeded(resp)
             THEN /\ quotes' = UpdateNewQuote(quotes, r, resp.id, now)
                  /\ persisted' = SaveQuotes(quotes')
                  /\ status' = StatusOf(Msg("Quote posted successfully!", 0), "success")
                  /\ options' = OptionsOf(quotes')
                  /\ selected' = SelectValue(options', post[r].category)
                  /\ display' = Shown("added", "", post[r].category)
                  /\ filterTimers' = filterTimers + 1
                  /\ post' = [post EXCEPT ![r].st = "acked", ![r].http = resp.status]
                  /\ alert' = ""
             ELSE /\ status' = StatusOf(Msg("Post Failed: Status", resp.status), "error")
                  /\ alert' = FailedAlert
                  /\ post' = [post EXCEPT ![r].st = "failed", ![r].http = resp.status]
                  /\ UNCHANGED << quotes, persisted, options, selected, display, filterTimers >>
    /\ lastSync' = NoSync
    /\ UNCHANGED << savedFilter, isSyncing, getPending, postsIssued, nextRef, now, conflict,
                    events >>

\* the POST fails, or its body is no JSON: the catch of postNewQuoteToServer
PostReject ==
    /\ ~lastLoad.threw
    /\ lastLoad' = LoadSeen
    /\ lastPosts' = <<>>
    /\ \E r \in Refs :
          /\ post[r].st = "pending"
          /\ post' = [post EXCEPT ![r].st = "failed"]
    /\ status' = StatusOf(Msg("Post Failed (Connection Error)", 0), "error")
    /\ alert' = FailedAlert
    /\ lastSync' = NoSync
    /\ UNCHANGED << quotes, persisted, savedFilter, isSyncing, getPending, postsIssued,
                    nextRef, now, conflict, options, selected, display, filterTimers,
                    events >>

(***************************************************************************)
(* importQuotes: reader.onload                                             *)
(***************************************************************************)
\* a validity check that only looks at Array.isArray(importedData)
ImportValidListOnly(file) == file.isArray

\* Array.isArray(importedData) && importedData.every(q => typeof q.text === 'string' && ...)
ImportValid(file) ==
    /\ file.isArray
    /\ \A i \in 1..Len(file.items) :
          file.items[i].text.t = "string" /\ file.items[i].category.t = "string"

\* an import that adds the objects to the collection
ImportedAppended(items) ==
    quotes \o [i \in 1..Len(items) |->
                 Quote(items[i].text.v, items[i].category.v, items[i].id, items[i].timestamp)]

\* the objects JSON.parse built for a valid file
Imported(items) ==
    [i \in 1..Len(items) |->
        Quote(items[i].text.v, items[i].category.v, items[i].id, items[i].timestamp)]

\* reader.onload for the text of the file
OnLoad(file) ==
    IF ~file.parses
    THEN /\ alert' = "Import failed: Could not parse file as valid JSON."
         /\ UNCHANGED << quotes, persisted, savedFilter, options, selected, display >>
    ELSE IF ImportValid(file)
    THEN /\ quotes' = Imported(file.items)
         /\ persisted' = SaveQuotes(quotes')
         /\ options' = OptionsOf(quotes')
         /\ selected' = SelectValue(options', "all")
         /\ FilterQuotes(quotes', selected')
         /\ alert' = ""
    ELSE /\ alert' = "Import failed: File content is invalid."
         /\ UNCHANGED << quotes, persisted, savedFilter, options, selected, display >>

\* exportQuotes: the content of the file the browser downloads
ExportQuotes(qs) ==
    File(TRUE, TRUE,
         [i \in 1..Len(qs) |->
             Item(JString(Stringify(qs)[i].text), JString(Stringify(qs)[i].category),
                  Stringify(qs)[i].id, Stringify(qs)[i].timestamp)])

\* the user picks a file in the importFile control
ImportQuotes ==
    /\ ~lastLoad.threw
    /\ lastLoad' = LoadSeen
    /\ lastPosts' = <<>>
    /\ events < MaxEvents
    /\ events' = events + 1
    /\ \E file \in ImportFiles : OnLoad(file)
    /\ lastSync' = NoSync
    /\ UNCHANGED << isSyncing, getPending, post, postsIssued, nextRef, now, status,
                    conflict, filterTimers >>

(***************************************************************************)
(* Specification                                                           *)
(***************************************************************************)
Next ==
    \/ NewQuoteClick
    \/ FilterTimer
    \/ SelectCategory
    \/ Tick
    \/ StatusTimer
    \/ SyncQuotes
    \/ FetchReject
    \/ FetchEmpty
    \/ FetchMerge
    \/ HandleAddQuote
    \/ PostResolve
    \/ PostReject
    \/ ImportQuotes

Spec == Init /\ [][Next]_vars

\* the promise of the fetch of fetchServerQuotes settles: it rejects or it resolves
FetchSettles == FetchReject \/ FetchEmpty \/ FetchMerge

\* every fetch of a pass is eventually answered or fails; nothing is assumed of the user,
\* the clock or the POST
FairSpec == Spec /\ WF_vars(FetchSettles)

(***************************************************************************)
(* Properties                                                              *)
(***************************************************************************)
Range(f) == {f[i] : i \in DOMAIN f}

Merged == lastSync.op = "merged"

LocalKeys(qs) == {LocalKey(qs[i]) : i \in 1..Len(qs)}

RemoteKeys(sqs) == {ServerKey(sqs[i]) : i \in 1..Len(sqs)}

\* the record a key stands for in a collection with several records of that key:
\* the last of them
LastLocal(qs, key) ==
    qs[CHOOSE i \in 1..Len(qs) :
          LocalKey(qs[i]) = key /\ \A j \in (i + 1)..Len(qs) : LocalKey(qs[j]) # key]

RemoteWith(sqs, key) == {sqs[i] : i \in {j \in 1..Len(sqs) : ServerKey(sqs[j]) = key}}

\* positions of the records of a collection that have the key
Holding(qs, key) == {i \in 1..Len(qs) : LocalKey(qs[i]) = key}

Count(qs, q) == Cardinality({i \in 1..Len(qs) : qs[i] = q})

\* both are numbers and a is the greater
StrictlyLater(a, b) == a >= 0 /\ b >= 0 /\ a > b

\* C1: for every merge key present in the local collection and in the remote set, the
\* collection after the pass holds one record for the key: a remote record with a
\* timestamp strictly greater than the local one if there is such a remote record,
\* and the unchanged local record otherwise (equal or smaller remote timestamp).
C1_MergePrecedence ==
    Merged =>
       \A key \in LocalKeys(lastSync.local) \cap RemoteKeys(lastSync.remote) :
          LET loc == LastLocal(lastSync.local, key)
              rs == RemoteWith(lastSync.remote, key)
              held == Holding(lastSync.result, key)
          IN /\ Cardinality(held) = 1
             /\ \A i \in held :
                   IF \E r \in rs : StrictlyLater(r.timestamp, loc.timestamp)
                   THEN /\ lastSync.result[i] \in rs
                        /\ StrictlyLater(lastSync.result[i].timestamp, loc.timestamp)
                   ELSE lastSync.result[i] = loc

\* a pass has just kept a local record against a different remote record of the same
\* key and the same timestamp
C1_Witness ==
    /\ Merged
    /\ \E key \in LocalKeys(lastSync.local) \cap RemoteKeys(lastSync.remote) :
          \E r \in RemoteWith(lastSync.remote, key) :
             /\ r # LastLocal(lastSync.local, key)
             /\ r.timestamp = LastLocal(lastSync.local, key).timestamp
             /\ r.timestamp >= 0
             /\ LastLocal(lastSync.local, key) \in Range(lastSync.result)

\* C2: every local record whose key is absent from the remote set is still in the
\* collection after the pass, as many times as before.
C2_LocalRetained ==
    Merged =>
       \A i \in 1..Len(lastSync.local) :
          LocalKey(lastSync.local[i]) \notin RemoteKeys(lastSync.remote)
             => Count(lastSync.result, lastSync.local[i]) >= Count(lastSync.local, lastSync.local[i])

\* positions of the remote items that have an id no local record has
NewIdItems == {i \in 1..Len(lastSync.remote) :
                  /\ Truthy(lastSync.remote[i].id)
                  /\ ServerKey(lastSync.remote[i]) \notin LocalKeys(lastSync.local)}

NewKeys == RemoteKeys(lastSync.remote) \ LocalKeys(lastSync.local)

\* C3 as stated: each remote item whose id is absent from the local collection adds 1
\* to the merge count and is in the collection after the pass.
C3_EveryNewItemMerged ==
    Merged =>
       /\ \A i \in NewIdItems : lastSync.remote[i] \in Range(lastSync.result)
       /\ lastSync.mergeCount =
             Cardinality({i \in 1..Len(lastSync.remote) :
                             ServerKey(lastSync.remote[i]) \notin LocalKeys(lastSync.local)})

\* C3 amended: each distinct id of the remote set that is absent from the local
\* collection adds 1 to the merge count, however often the remote set repeats it, and
\* the collection after the pass holds exactly one record with that id, a remote one.
C3_NewIdMergedOnce ==
    Merged =>
       /\ lastSync.mergeCount = Cardinality(NewKeys)
       /\ \A i \in NewIdItems :
             LET held == Holding(lastSync.result, ServerKey(lastSync.remote[i]))
             IN /\ Cardinality(held) = 1
                /\ \A j \in held :
                      lastSync.result[j] \in RemoteWith(lastSync.remote, ServerKey(lastSync.remote[i]))

\* a pass has just merged a remote set that repeats an id the collection did not have
C3_Witness ==
    /\ Merged
    /\ \E i, j \in NewIdItems : i # j /\ lastSync.remote[i].id = lastSync.remote[j].id
    /\ lastSync.mergeCount >= 1

\* C4: mergeCount is the number of distinct keys of the remote set that are absent from
\* the local collection, and conflictCount is the number of keys present in both for
\* which a remote record replaced the local one.
C4_Counts ==
    Merged =>
       /\ lastSync.mergeCount = Cardinality(NewKeys)
       /\ lastSync.conflictCount =
             Cardinality({key \in LocalKeys(lastSync.local) \cap RemoteKeys(lastSync.remote) :
                             \E i \in Holding(lastSync.result, key) :
                                lastSync.result[i] # LastLocal(lastSync.local, key)})

\* C5: at most one GET of a sync pass is in flight, and it is while isSyncing is set;
\* a call of syncQuotes while a pass is pending issues no GET and changes nothing of
\* the collection, the persisted copy, the flag or the status; a GET is only issued by
\* a call made while no pass is pending (no call is kept for later).
C5_ReentrancyGuard ==
    /\ [](getPending <= 1 /\ (isSyncing <=> getPending = 1))
    /\ [][/\ (isSyncing /\ SyncQuotes)
                => UNCHANGED << getPending, quotes, persisted, isSyncing, status, events >>
          /\ getPending' > getPending => (~isSyncing /\ SyncQuotes)]_vars

\* a call of syncQuotes has just been dropped while a pass was pending
C5_Witness == lastSync.op = "dropped" /\ isSyncing /\ getPending = 1

\* C6: the step of a pass whose GET fails leaves the collection and the persisted copy
\* as they are, ends the pass and leaves the error status in the indicator; the step
\* that started the pass changed neither.
C6_FetchFailureAborts ==
    [][/\ FetchReject => /\ quotes' = quotes
                         /\ persisted' = persisted
                         /\ ~isSyncing'
                         /\ status'.cls = "error"
       /\ (~isSyncing /\ SyncQuotes) => (quotes' = quotes /\ persisted' = persisted)]_vars

\* a pass has just been aborted by a failed GET
C6_Witness == lastSync.op = "failed" /\ ~isSyncing /\ status.cls = "error"

\* C7 as stated: the step of a pass whose GET is answered with no record ends in a
\* success or idle status and leaves collection, persisted copy, options and display.
C7_EmptyPassIsSuccess ==
    [][FetchEmpty => /\ status'.cls \in {"success", "idle"}
                     /\ UNCHANGED << quotes, persisted, options, display >>]_vars

\* C7 amended: such a step ends in the idle status unless the indicator shows an error
\* status when the answer arrives (a POST failed during the pass), which it leaves in
\* place; it leaves collection, persisted copy, options and display unchanged.
C7_EmptyPassKeepsError ==
    [][FetchEmpty => /\ status.cls # "error" => status' = [msg |-> "Synced successfully.", n |-> 0, cls |-> "idle"]
                     /\ status.cls = "error" => status' = status
                     /\ ~isSyncing'
                     /\ UNCHANGED << quotes, persisted, options, display >>]_vars

\* a pass answered with no record has just ended while the indicator showed the
\* failure of a POST
C7_Witness == lastSync.op = "empty" /\ status.cls = "error" /\ \E r \in Refs : post[r].st = "failed"

\* the record the r-th newQuote was when its POST was issued, as saveQuotes writes it
Sent(r) == [text |-> post[r].text, category |-> post[r].category,
            id |-> TempId(post[r].t), timestamp |-> post[r].t]

InPersisted(r) == \E i \in 1..Len(persisted) : persisted[i] = Sent(r)

\* the persisted collection has the record at the position of the added object
SavedInPlace(r) ==
    \E i \in 1..Len(persisted) :
       i <= Len(quotes) /\ quotes[i].ref = r /\ persisted[i] = Sent(r)

C9_AckReplacesTempId ==
    [][\A r \in Refs :
          (post[r].st = "pending" /\ post'[r].st = "acked") =>
             /\ \E i \in 1..Len(quotes') :
                   /\ quotes'[i].ref = r
                   /\ quotes'[i].id.k = "num"
                   /\ quotes'[i].timestamp = now
                   /\ persisted'[i] = [text |-> post[r].text, category |-> post[r].category,
                                       id |-> quotes'[i].id, timestamp |-> now]
             /\ \A i \in 1..Len(quotes') : quotes'[i].id # TempId(post[r].t)
             /\ \A i \in 1..Len(persisted') : persisted'[i].id # TempId(post[r].t)]_vars

Blank(str) == \A i \in 1..Len(str) : SubSeq(str, i, i) = " "

\* C11: a submission whose text or category is blank changes neither the collection
\* nor the persisted copy, issues no POST and raises the warning.
C11_BlankSubmissionRejected ==
    [][\A textIn \in FormTexts, categoryIn \in FormCategories :
          (/\ Blank(textIn) \/ Blank(categoryIn)
           /\ HandleAddQuote
           /\ Submit(textIn, categoryIn)) =>
              /\ UNCHANGED << quotes, persisted, post, postsIssued, nextRef >>
              /\ alert' = "Please ensure both the quote text and a category are entered."]_vars

\* a submission has just been rejected, after one that was accepted
C11_Witness ==
    /\ alert = "Please ensure both the quote text and a category are entered."
    /\ nextRef = 2
    /\ events = 2

\* the parsed content is a list whose elements all have text and category strings
Acceptable(file) ==
    /\ file.parses
    /\ file.isArray
    /\ \A i \in 1..Len(file.items) :
          file.items[i].text.t = "string" /\ file.items[i].category.t = "string"

\* the records of a file, as values
FileRecords(file) ==
    [i \in 1..Len(file.items) |->
        [text |-> file.items[i].text.v, category |-> file.items[i].category.v,
         id |-> file.items[i].id, timestamp |-> file.items[i].timestamp]]

\* a collection and a list of records hold the same values in the same order
SameRecords(qs, recs) ==
    /\ Len(qs) = Len(recs)
    /\ \A i \in 1..Len(qs) :
          /\ qs[i].text = recs[i].text
          /\ qs[i].category = recs[i].category
          /\ qs[i].id = recs[i].id
          /\ qs[i].timestamp = recs[i].timestamp

\* C12: an import step accepts the file (no alert) exactly when its content is a list
\* whose elements all have text and category strings; the collection is then the list
\* of the file, with nothing of the previous collection, and the persisted copy equals
\* it.
C12_ImportReplaces ==
    [][\A file \in ImportFiles :
          (ImportQuotes /\ OnLoad(file)) =>
             /\ alert' = "" <=> Acceptable(file)
             /\ Acceptable(file) =>
                   /\ SameRecords(quotes', FileRecords(file))
                   /\ persisted' = FileRecords(file)
                   /\ \A i \in 1..Len(quotes') : quotes'[i].ref = 0]_vars

\* a file has just replaced a collection that held a record added through the form
C12_Witness ==
    /\ nextRef = 2
    /\ \E file \in ImportFiles :
          Acceptable(file) /\ SameRecords(quotes, FileRecords(file)) /\ persisted = FileRecords(file)
    /\ alert = ""
    /\ lastSync.op = "none"

\* C13: an import step whose file is unparsable, is no list or has an element without
\* a text or category string raises an alert and leaves the collection and the
\* persisted copy as they are.
C13_ImportRejected ==
    [][\A file \in ImportFiles :
          (~Acceptable(file) /\ ImportQuotes /\ OnLoad(file)) =>
             /\ alert' \in {"Import failed: Could not parse file as valid JSON.",
                            "Import failed: File content is invalid."}
             /\ UNCHANGED << quotes, persisted >>]_vars

\* a file has just been rejected for an element without a category
C13_Witness ==
    /\ alert = "Import failed: File content is invalid."
    /\ persisted = Stringify(quotes)

\* a Quote as the data model has it: text and category that are not blank, and a
\* timestamp that is a number of milliseconds or absent
ValidQuote(q) ==
    /\ ~Blank(q.text)
    /\ ~Blank(q.category)
    /\ q.timestamp >= 0 \/ q.timestamp = TsUndefined

ValidQuoteList(qs) == \A i \in 1..Len(qs) : ValidQuote(qs[i])

Matching(qs, sel) == {i \in 1..Len(qs) : sel = "all" \/ qs[i].category = sel}

\* quoteDisplay shows a record of the selection, or the no-quotes message for the
\* selected value if the selection is empty
Rendered(d, prefix, qs, sel) ==
    IF Matching(qs, sel) = {}
    THEN d.kind = prefix \o "none" /\ d.category = sel
    ELSE /\ d.kind = prefix \o "quote"
         /\ \E i \in Matching(qs, sel) : d.text = qs[i].text /\ d.category = qs[i].category

\* C15: every step that calls filterQuotes (the newQuote button, the timer of
\* handleAddQuote, a sync merge, an accepted import) and the startup leave in
\* quoteDisplay a record of the collection that has the selected category, any record
\* if 'all' is selected, and the no-quotes message if there is no such record.
C15_DisplayFromSelection ==
    /\ []((lastLoad.fresh /\ ~lastLoad.threw) => Rendered(display, "last-", quotes, selected))
    /\ [][(\/ NewQuoteClick
           \/ FilterTimer
           \/ lastSync'.op = "merged"
           \/ ImportQuotes /\ alert' = "") => Rendered(display', "", quotes', selected')]_vars

\* a record of the selected category is shown while the collection has others
C15_Witness ==
    /\ selected = "Work"
    /\ savedFilter = "Work"
    /\ display.kind = "quote"
    /\ display.category = "Work"
    /\ \E i \in 1..Len(quotes) : quotes[i].category # "Work"

\* C16: every record of the persisted collection has a text and a category that are
\* not empty.
C16_PersistedNonEmpty ==
    \A i \in 1..Len(persisted) : persisted[i].text # "" /\ persisted[i].category # ""

\* C17: in every state (the states of the model are the states at the awaits and
\* between the events) the persisted collection is the serialisation of the
\* collection: the same records in the same order, field by field, a NaN timestamp
\* written as null.
C17_PersistedIsSerialisation ==
    /\ Len(persisted) = Len(quotes)
    /\ \A i \in 1..Len(quotes) :
          /\ persisted[i].text = quotes[i].text
          /\ persisted[i].category = quotes[i].category
          /\ persisted[i].id = quotes[i].id
          /\ persisted[i].timestamp =
                IF quotes[i].timestamp = TsNaN THEN TsNull ELSE quotes[i].timestamp

\* a POST has been acknowledged after a sync merge and the persisted collection has
\* the id of the response
C17_Witness ==
    /\ \E r \in Refs : post[r].st = "acked"
    /\ \E i \in 1..Len(persisted) : persisted[i].id = NumId(101)
    /\ \E i \in 1..Len(persisted) : persisted[i].category = "Server Update"

\* the object the r-th submission appended is in the collection
InCollection(r, qs) == \E i \in 1..Len(qs) : qs[i].ref = r

\* C18: no step other than an import removes from the collection a record that a
\* form submission appended, whatever id it has by then.
C18_NoDeletion ==
    [][\A r \in Refs :
          (InCollection(r, quotes) /\ ~ImportQuotes) => InCollection(r, quotes')]_vars

\* C19: when loadQuotes has run, the stored filter is the selected one if it is an
\* option of the loaded collection and the selection is 'all' otherwise; the selection
\* is 'all' or the category of a record.
C19_FilterRestored ==
    lastLoad.fresh =>
       /\ selected = IF lastLoad.filter # "" /\ HasOption(options, lastLoad.filter)
                     THEN lastLoad.filter
                     ELSE "all"
       /\ selected = "all" \/ \E i \in 1..Len(quotes) : quotes[i].category = selected

\* C20: a sync merge leaves the selected filter and the persisted filter as they are
\* when the selected category is still an option after it.
C20_SyncKeepsFilter ==
    [][(lastSync'.op = "merged" /\ HasOption(options', selected)) =>
          (selected' = selected /\ savedFilter' = savedFilter)]_vars

\* the values of the options of a rebuilt control: 'all', then the distinct categories
\* that are not empty, in the order of sort()
SortedCategories(qs) ==
    LET cats == {qs[i].category : i \in 1..Len(qs)} \ {""}
    IN <<"all">> \o SelectSeq(CategoryOrder, LAMBDA c : c \in cats)

\* a step that completes an operation that changes the collection: the answer to the
\* POST of a submission (success or failure), an accepted import, a sync merge
CompletesChange ==
    \/ \E r \in Refs : post[r].st = "pending" /\ post'[r].st \in {"acked", "failed"}
    \/ ImportQuotes /\ alert' = ""
    \/ lastSync'.op = "merged"

\* C21: after every step that completes an operation that changes the collection the
\* options of categoryFilter are 'all' plus the sorted distinct non-empty categories
\* of the collection.
C21_OptionsFollowCollection ==
    [][CompletesChange => options' = SortedCategories(quotes')]_vars

\* C22: a sync merge leaves the conflict notification shown with the review button
\* exactly when its conflictCount is greater than 0, and empty without the warning
\* class otherwise; a pass that ends on a failed or empty fetch leaves it as it was.
C22_ConflictBanner ==
    [][/\ lastSync'.op = "merged" =>
             IF lastSync'.conflictCount > 0
             THEN /\ conflict'.button
                  /\ conflict'.count = lastSync'.conflictCount
                  /\ conflict'.cls = "conflict-notification conflict-warning"
             ELSE /\ ~conflict'.button
                  /\ conflict'.count = 0
                  /\ conflict'.cls = "conflict-notification"
       /\ (FetchReject \/ FetchEmpty) => conflict' = conflict]_vars

\* a merge without conflict has just cleared the notification of an earlier merge
C22_Witness ==
    /\ lastSync.op = "merged"
    /\ lastSync.conflictCount = 0
    /\ ~conflict.button
    /\ \E i \in 1..Len(lastSync.local) :
          lastSync.local[i].category = "Server Update" /\ lastSync.local[i].id = NumId(1)

\* C23: when every fetch eventually settles, a pass that has set isSyncing eventually
\* clears it, and a call of syncQuotes that follows a failed pass is not dropped: it
\* starts a new pass.
C23_FlagEventuallyCleared ==
    /\ isSyncing ~> ~isSyncing
    /\ [][(lastSync.op = "failed" /\ SyncQuotes) =>
             (isSyncing' /\ getPending' = getPending + 1 /\ lastSync'.op = "started")]_vars

\* a second pass has started after the first one ended without a merge
C23_Witness ==
    /\ lastSync.op = "started"
    /\ isSyncing
    /\ events = 1
    /\ conflict.cls = ""

\* the positions of the records of qs that carry the text of submission r
WithTextOf(r, qs) == {i \in 1..Len(qs) : qs[i].text = post[r].text}

\* the only thing the user has done is one form submission, its POST has been answered
\* or has failed, and no pass is under way: the submission ran beside the pass that the
\* load started, or after it
OneAddAndSyncDone ==
    /\ nextRef = 2
    /\ events = 1
    /\ post[1].st \in {"acked", "failed"}
    /\ ~isSyncing
    /\ getPending = 0

\* the identifier the record of submission r must carry once its POST is over
FinalId(r) ==
    IF post[r].st = "acked"
    THEN (CHOOSE resp \in PostResponses : PostSucceeded(resp)).id
    ELSE TempId(post[r].t)

\* C24: when one form submission and one sync pass have both completed, in either
\* order, and the id the server assigned is the id of no other record, the collection
\* and the persisted copy contain the new quote exactly once, with the server id if
\* the POST was acknowledged (with the temporary one if it failed).
C24_AddRacingSync ==
    (/\ OneAddAndSyncDone
     /\ \A i \in 1..Len(quotes) : quotes[i].id = FinalId(1) => quotes[i].ref = 1)
    => /\ Cardinality({i \in 1..Len(quotes) : quotes[i].ref = 1}) = 1
       /\ Cardinality(WithTextOf(1, quotes)) = 1
       /\ \A i \in WithTextOf(1, quotes) :
             /\ quotes[i].ref = 1
             /\ quotes[i].category = post[1].category
             /\ quotes[i].id = FinalId(1)
       /\ Len(persisted) = Len(quotes)
       /\ Cardinality({i \in 1..Len(persisted) : persisted[i].text = post[1].text}) = 1
       /\ \A i \in 1..Len(persisted) :
             persisted[i].text = post[1].text =>
                persisted[i].category = post[1].category /\ persisted[i].id = FinalId(1)

\* the POST was acknowledged while the pass was waiting for its answer, and the pass
\* has then merged a remote record
C24_Witness ==
    /\ OneAddAndSyncDone
    /\ post[1].st = "acked"
    /\ lastSync.op = "merged"
    /\ lastSync.mergeCount > 0
    /\ \E i \in 1..Len(quotes) : quotes[i].ref = 1 /\ quotes[i].id = FinalId(1)

\* a merge of the very posts that the merge before it received, nothing having touched
\* the collection in between
SameSetAgain == FetchMerge /\ lastPosts # << >> /\ lastPosts' = lastPosts

\* C25: when two successive successful passes receive the same set of posts and no
\* local operation comes between them, the second pass counts no conflict, shows no
\* conflict notification and leaves the collection as it was.
C25_StableResync ==
    [][SameSetAgain =>
          /\ lastSync'.conflictCount = 0
          /\ ~conflict'.button
          /\ conflict'.count = 0
          /\ quotes' = quotes]_vars

\* C26: a pass that receives the set of posts that the pass before it has merged adds
\* no record, whether the posts carry an id or not: its mergeCount is 0 and the
\* collection keeps its size.
C26_NoGrowth ==
    [][SameSetAgain =>
          /\ lastSync'.mergeCount = 0
          /\ Len(quotes') = Len(quotes)]_vars

\* the keys of the pass, present on both sides, whose local record has an id and no
\* timestamp
UnstampedMatches ==
    {key \in LocalKeys(lastSync.local) \cap RemoteKeys(lastSync.remote) :
        /\ Truthy(LastLocal(lastSync.local, key).id)
        /\ LastLocal(lastSync.local, key).timestamp = TsUndefined}

\* C27: a local record that has an id and no timestamp is kept when a remote record
\* has its key, whatever the remote timestamp: the collection after the pass holds the
\* local record under the key, and no remote record of the key counts as a conflict.
C27_UnstampedLocalKept ==
    Merged =>
       /\ \A key \in UnstampedMatches :
             /\ Holding(lastSync.result, key) # {}
             /\ \A i \in Holding(lastSync.result, key) :
                   lastSync.result[i] = LastLocal(lastSync.local, key)
       /\ lastSync.conflictCount <=
             Cardinality({i \in 1..Len(lastSync.remote) :
                             ServerKey(lastSync.remote[i]) \notin UnstampedMatches})

\* a pass has received a record with a timestamp for the key of a local record that
\* has none, and the local record is in the collection after the pass
C27_Witness ==
    /\ Merged
    /\ \E key \in UnstampedMatches :
          /\ \E sq \in RemoteWith(lastSync.remote, key) : sq.timestamp > 0
          /\ \E i \in 1..Len(quotes) : quotes[i] = LastLocal(lastSync.local, key)

====
